---- MODULE Spec2Model ----
(***************************************************************************)
(* Model of hrtfdata/datapoint.py: SofaDataPoint.                          *)
(*                                                                         *)
(* Angles and radii are integers.  A grid value (after np.round with       *)
(* _quantisation = 3) counts thousandths; a raw coordinate, as read from   *)
(* the file, counts ten-thousandths, so that rounding is a real step.      *)
(* Indices are 0-based as in numpy; At(s, i) reads a 0-based index.        *)
(***************************************************************************)
EXTENDS Integers, Sequences, FiniteSets, TLC

VARIABLES
    layout,      \* "spherical" | "interaural": the class of self (isinstance tests)
    dtype,       \* self.dtype
    fileOpens,   \* ncdf.Dataset(sofa_path) succeeds
    fileReads,   \* the variables of the file can be read
    positions,   \* SourcePosition in the layout's coordinates, before the column swap
    siglen,      \* L, the size of dimension N of Data.IR
    sigbase,     \* lowest sample value of Data.IR
    side,            \* arguments of the calls the caller makes
    domain,
    row_indices,
    column_indices,
    row_angles,
    column_angles,
    handles,     \* number of open netCDF handles
    last         \* what the last call returned or raised

object == <<layout, dtype>>
file == <<fileOpens, fileReads, positions, siglen, sigbase>>
arguments == <<side, domain, row_indices, column_indices, row_angles, column_angles>>
vars == <<object, file, arguments, handles, last>>

----------------------------------------------------------------------------
\* Bounds of the model.

MaxN == 3

MaxNH == 2

MaxNF == 2

----------------------------------------------------------------------------
\* Numbers of the program.

Quantisation == 3

\* Grid units per degree: 10^Quantisation.
RECURSIVE Pow10(_)
Pow10(n) == IF n = 0 THEN 1 ELSE 10 * Pow10(n - 1)

Unit == Pow10(Quantisation)

Deg(d) == d * Unit

\* A raw coordinate holds one more decimal than the grid keeps.
RawDeg(d) == d * Unit * 10

Abs(x) == IF x < 0 THEN 0 - x ELSE x

At(s, i) == s[i + 1]

None == "None"

\* An optional argument: None, or the value given.
Absent == [given |-> FALSE, v |-> <<>>]

Given(v) == [given |-> TRUE, v |-> v]

----------------------------------------------------------------------------
\* numpy and util helpers.

\* np.round(x, _quantisation): round half to even of raw / 10.
Round(x) ==
    LET q == x \div 10
        r == x % 10
    IN  IF r < 5 THEN q
        ELSE IF r > 5 THEN q + 1
        ELSE IF q % 2 = 0 THEN q ELSE q + 1

\* util.wrap_closed_open_interval(x, lo, hi)
wrap_closed_open_interval(x, lo, hi) == ((x - lo) % (hi - lo)) + lo

\* np.isclose(a, b): |a - b| <= atol + rtol * |b|, atol = 1e-8, rtol = 1e-5,
\* on values counted in 10^-3: |a - b| * 10^5 <= 1 + |b|.
isclose(a, b) == Abs(a - b) <= (1 + Abs(b)) \div 100000

SetMin(S) == CHOOSE x \in S : \A y \in S : x <= y

\* np.unique: the sorted distinct values.
RECURSIVE unique(_)
unique(S) ==
    IF S = {} THEN <<>>
    ELSE LET m == SetMin(S) IN <<m>> \o unique(S \ {m})

\* np.argmax of a boolean vector: the first index holding True, 0 if none.
argmax(b) ==
    IF \E i \in 1..Len(b) : b[i]
    THEN (CHOOSE i \in 1..Len(b) : b[i] /\ \A j \in 1..(i - 1) : ~b[j]) - 1
    ELSE 0

\* Index of value v in the unique array u: np.argmax(v == u).
IndexIn(v, u) == argmax([i \in 1..Len(u) |-> At(u, i - 1) = v])

----------------------------------------------------------------------------
\* _map_sofa_position_order_to_matrix, lines 107-148, on positions already read.

\* Line 112: the interaural layout swaps the first two coordinate columns.
SwapColumns(lay, p) == IF lay = "interaural" THEN <<p[2], p[1], p[3]>> ELSE p

\* Lines 119-120: round all three coordinates, wrap the row angle.
Quantise(lay, p) ==
    LET n == SwapColumns(lay, p)
    IN  <<wrap_closed_open_interval(Round(n[1]), Deg(-180), Deg(180)), Round(n[2]), Round(n[3])>>

quantised_positions(lay, pos) == [i \in 1..Len(pos) |-> Quantise(lay, pos[i])]

Column(q, a) == {q[i][a] : i \in 1..Len(q)}

Cells(R, C, K) == (0..(R - 1)) \X (0..(C - 1)) \X (0..(K - 1))

\* Lines 124-127: the cell of each raw index.
position_map(q, rows, cols, radii) ==
    [i \in 1..Len(q) |-> <<IndexIn(q[i][1], rows), IndexIn(q[i][2], cols), IndexIn(q[i][3], radii)>>]

\* Lines 129-130: all True, False at every occupied cell.
occupied_mask(pmap, R, C, K) ==
    [cell \in Cells(R, C, K) |-> ~(\E i \in 1..Len(pmap) : pmap[i] = cell)]

\* Lines 134 / 141: for each radius, exactly one row has data in column c.
single_mask(mask, R, K, c) ==
    [k \in 1..K |-> Cardinality({r \in 0..(R - 1) : ~mask[<<r, c, k - 1>>]}) = 1]

\* Lines 135 / 142: argmax of the (R, K) slice ~position_mask[:, c], which numpy
\* takes over the flattened slice: the first r * K + k in row-major order, 0 if none.
pole_idx(mask, R, K, c) ==
    LET hits == {r * K + k : <<r, k>> \in {rk \in (0..(R - 1)) \X (0..(K - 1)) : ~mask[<<rk[1], c, rk[2]>>]}}
    IN  IF hits = {} THEN 0 ELSE SetMin(hits)

\* Lines 136 / 143: np.where(single, False, position_mask[:, c]).
\* (KeepMask: the pole column left as the raw positions fill it.)
KeepMask(mask, single, c) == mask

share_pole(mask, single, c) ==
    [cell \in DOMAIN mask |-> IF cell[2] = c /\ single[cell[3] + 1] THEN FALSE ELSE mask[cell]]

\* A single-pole mask is a vector over the radii, or the scalar False of lines 138 / 145.
ScalarFalse == [scalar |-> TRUE, v |-> <<>>]

Vector(v) == [scalar |-> FALSE, v |-> v]

map_sofa_position_order_to_matrix(lay, pos) ==
    LET q     == quantised_positions(lay, pos)
        rows  == unique(Column(q, 1))
        cols  == unique(Column(q, 2))
        radii == unique(Column(q, 3))
        R     == Len(rows)
        C     == Len(cols)
        K     == Len(radii)
        pmap  == position_map(q, rows, cols, radii)
        mask0 == occupied_mask(pmap, R, C, K)
        isEnd == isclose(At(cols, C - 1), Deg(90))
        sEnd  == single_mask(mask0, R, K, C - 1)
        iEnd  == pole_idx(mask0, R, K, C - 1)
        mask1 == IF isEnd THEN share_pole(mask0, sEnd, C - 1) ELSE mask0
        isSta == isclose(At(cols, 0), Deg(-90))
        sSta  == single_mask(mask1, R, K, 0)
        iSta  == pole_idx(mask1, R, K, 0)
        mask2 == IF isSta THEN share_pole(mask1, sSta, 0) ELSE mask1
    IN  [unique_row_angles    |-> rows,
         unique_column_angles |-> cols,
         unique_radii         |-> radii,
         position_mask        |-> mask2,
         position_map         |-> pmap,
         single_start_mask    |-> IF isSta THEN Vector(sSta) ELSE ScalarFalse,
         start_pole_idx       |-> IF isSta THEN iSta ELSE 0,
         single_end_mask      |-> IF isEnd THEN Vector(sEnd) ELSE ScalarFalse,
         end_pole_idx         |-> IF isEnd THEN iEnd ELSE 0]

----------------------------------------------------------------------------
\* _hrir_select_angles, lines 76-99.

\* What a call gives back: a value, or the exception it raised.
Ok(v) == [kind |-> "ok", msg |-> "", value |-> v]

Raise(kind, msg) == [kind |-> kind, msg |-> msg, value |-> None]

\* The ascending sequence of the members of a set of indices (nonzero()[0]).
Ascending(S) == unique(S)

\* Lines 81 / 88: the indices whose angle is close to some requested angle.
select_indices(requested, all_angles) ==
    IF ~requested.given THEN 0..(Len(all_angles) - 1)
    ELSE {i \in 0..(Len(all_angles) - 1) : \E a \in requested.v : isclose(At(all_angles, i), a)}

\* Lines 92-97: one pruning pass, each axis against the selection of the other.
\* (keep_rows_all_present: a row pruned as soon as one of its cells is missing.)
keep_rows_all_present(mask, selRows, selCols, K) ==
    {r \in selRows : \A c \in selCols, k \in 0..(K - 1) : ~mask[<<r, c, k>>]}

keep_rows(mask, selRows, selCols, K) ==
    {r \in selRows : ~(\A c \in selCols, k \in 0..(K - 1) : mask[<<r, c, k>>])}

\* (keep_all_columns: the selected columns returned without pruning.)
keep_all_columns(mask, selRows, selCols, K) == selCols

keep_columns(mask, selRows, selCols, K) ==
    {c \in selCols : ~(\A r \in selRows, k \in 0..(K - 1) : mask[<<r, c, k>>])}

hrir_select_angles(rq, cq, all_rows, all_columns, position_mask, K) ==
    LET selRows == select_indices(rq, all_rows)
        selCols == select_indices(cq, all_columns)
    IN  IF rq.given /\ selRows = {}
        THEN Raise("ValueError", "None of the specified angles are available in this dataset")
        ELSE IF cq.given /\ selCols = {}
        THEN Raise("ValueError", "None of the specified angles are available in this dataset")
        ELSE Ok([row_indices    |-> Ascending(keep_rows(position_mask, selRows, selCols, K)),
                 column_indices |-> Ascending(keep_columns(position_mask, selRows, selCols, K))])

----------------------------------------------------------------------------
\* Access to the SOFA file: open, try / except / finally close (lines 47-55,
\* 59-67, 103-118, 196-203).

ReadError == "Error reading file"

Close(h) == h - 1

\* The value read, or the error, and the handles left open, starting from h.
\* (ScopedReadNoFinally: the handle closed on the successful path only.)
ScopedReadNoFinally(h, opens, reads, v) ==
    IF ~opens THEN [handles |-> h, out |-> Raise("OSError", "open")]
    ELSE IF reads THEN [handles |-> Close(h + 1), out |-> Ok(v)]
    ELSE [handles |-> h + 1, out |-> Raise("ValueError", ReadError)]

ScopedRead(h, opens, reads, v) ==
    IF ~opens THEN [handles |-> h, out |-> Raise("OSError", "open")]
    ELSE IF reads THEN [handles |-> Close(h + 1), out |-> Ok(v)]
    ELSE [handles |-> Close(h + 1), out |-> Raise("ValueError", ReadError)]

----------------------------------------------------------------------------
\* numpy arrays: a shape and a cell for every index tuple (0-based).  A cell of a
\* masked array is its datum v and its mask bit m.

RECURSIVE IndexSet(_)
IndexSet(shape) ==
    IF shape = <<>> THEN {<<>>}
    ELSE {<<i>> \o t : i \in 0..(Head(shape) - 1), t \in IndexSet(Tail(shape))}

ndim(a) == Len(a.shape)

\* The axes np.squeeze keeps: those whose size is not 1.
KeptAxes(shape) == {i \in 1..Len(shape) : shape[i] # 1}

SqueezeOn(a, kept) ==
    LET axes == Ascending(kept)
        rank(i) == Cardinality({m \in kept : m <= i})
        expand(ix) == [i \in 1..Len(a.shape) |-> IF i \in kept THEN ix[rank(i)] ELSE 0]
        shape == [n \in 1..Len(axes) |-> a.shape[axes[n]]]
    IN  [shape |-> shape, at |-> [ix \in IndexSet(shape) |-> a.at[expand(ix)]]]

\* np.squeeze, line 238.
squeeze(a) == SqueezeOn(a, KeptAxes(a.shape))

\* m[::-1] along one axis (1-based axis number).
FlipAxis(a, ax) ==
    [shape |-> a.shape,
     at    |-> [ix \in IndexSet(a.shape) |-> a.at[[ix EXCEPT ![ax] = a.shape[ax] - 1 - ix[ax]]]]]

\* np.flipud / np.fliplr: reverse axis 0 / axis 1 of the array as it is.
flipud(a) == IF ndim(a) < 1 THEN Raise("ValueError", "Input must be >= 1-d.") ELSE Ok(FlipAxis(a, 1))

fliplr(a) == IF ndim(a) < 2 THEN Raise("ValueError", "Input must be >= 2-d.") ELSE Ok(FlipAxis(a, 2))

\* Line 244: np.ma.row_stack((hrir[0:1], np.flipud(hrir[1:]))).  vstack makes 1-d
\* operands rows of a 2-d array, so a vector of n entries gives (1, 1) and
\* (1, n - 1), which stack only if n = 2.
keep_first_flip_rest(a) ==
    IF ndim(a) < 1 THEN Raise("IndexError", "too many indices for array")
    ELSE IF ndim(a) = 1
    THEN IF a.shape[1] = 2
         THEN Ok([shape |-> <<2, 1>>, at |-> [ix \in IndexSet(<<2, 1>>) |-> a.at[<<ix[1]>>]]])
         ELSE Raise("ValueError", "all the input array dimensions except for the concatenation axis must match exactly")
    ELSE Ok([shape |-> a.shape,
             at    |-> [ix \in IndexSet(a.shape) |->
                          IF ix[1] = 0 THEN a.at[ix]
                          ELSE a.at[[ix EXCEPT ![1] = a.shape[1] - ix[1]]]]])

----------------------------------------------------------------------------
\* hrir, lines 195-250.

\* Data.IR[i, ch, j]: every sample of the file is a different number.
Sample(base, ch, i, j) == base + 100 * ch + 10 * i + j + 1

\* Line 199: channel 0 if side ends with 'left', else channel 1.
\* (ChannelZero: the left channel whatever the side.)
ChannelZero(sd) == 0

Channel(sd) == IF sd \in {"left", "mirrored-left"} THEN 0 ELSE 1

Mirrored(sd) == sd \in {"mirrored-left", "mirrored-right"}

\* float32 keeps 24 bits: integers above 2^24 round to even multiples (ties to even).
Float32(v) ==
    IF Abs(v) <= 16777216 \/ v % 2 = 0 THEN v
    ELSE IF ((v - 1) \div 2) % 2 = 0 THEN v - 1 ELSE v + 1

IsComplexType(dt) == dt \in {"complex64", "complex128"}

\* astype(self.dtype) of one datum, line 238: numbers are rounded to the type's
\* precision; the data of a transform stay symbolic.
Cast(d, dt) ==
    IF d.f = "time" /\ dt \in {"float32", "complex64"}
    THEN [d EXCEPT !.x = [j \in DOMAIN d.x |-> Float32(d.x[j])]]
    ELSE d

\* Lines 205-206: np.empty, then one row of samples written per raw index, in
\* order, so that the last index of a cell wins.  g is what np.empty left behind.
LastWriter(pmap, cell) == CHOOSE i \in 1..Len(pmap) : pmap[i] = cell /\ \A j \in (i + 1)..Len(pmap) : pmap[j] # cell

scatter(pmap, R, C, K, L, base, ch, g) ==
    [ix \in IndexSet(<<R, C, K, L>>) |->
        LET cell == <<ix[1], ix[2], ix[3]>>
        IN  IF \E i \in 1..Len(pmap) : pmap[i] = cell
            THEN Sample(base, ch, LastWriter(pmap, cell), ix[4])
            ELSE g]

\* Lines 207 / 208: hrir_matrix[:, c] = np.where(single, hrir_matrix[idx, c], hrir_matrix[:, c]).
\* The operands have shapes (K,), (K, L) and (R, K, L) and broadcast from the right,
\* so the mask over the radii lines up with the sample axis.
pole_copy(M, R, K, L, c, single, idx) ==
    IF idx >= R THEN Raise("IndexError", "index out of bounds for axis 0")
    ELSE IF single.scalar THEN Ok(M)
    ELSE IF K = 1
    THEN Ok([ix \in DOMAIN M |->
              IF ix[2] = c /\ single.v[1] THEN M[<<idx, c, ix[3], ix[4]>>] ELSE M[ix]])
    ELSE IF L = K
    THEN Ok([ix \in DOMAIN M |->
              IF ix[2] = c /\ single.v[ix[4] + 1] THEN M[<<idx, c, ix[3], ix[4]>>] ELSE M[ix]])
    ELSE Raise("ValueError", "operands could not be broadcast together")

\* row_indices / column_indices: None (slice(None)) or a sequence of indices.
AllIndices(n) == [i \in 1..n |-> i - 1]

Indices(sel, n) == IF sel.given THEN sel.v ELSE AllIndices(n)

Domains == {"time", "complex", "magnitude", "magnitude_db", "phase"}

\* Lines 215-235: select, mask and transform.  A datum is the domain f, the bin
\* and the samples x it was computed from: the one sample itself in the time
\* domain, all samples of the cell for bin b of a transform, which stays symbolic.
transform(M, mask, ri, ci, K, L, dom) ==
    LET n == IF dom = "time" THEN L ELSE L \div 2 + 1
        shape == <<Len(ri), Len(ci), K, n>>
    IN  [shape |-> shape,
         at    |-> [ix \in IndexSet(shape) |->
                     LET r == At(ri, ix[1])
                         c == At(ci, ix[2])
                     IN  [v |-> IF dom = "time"
                                THEN [f |-> "time", bin |-> 0, x |-> <<M[<<r, c, ix[3], ix[4]>>]>>]
                                ELSE [f |-> dom, bin |-> ix[4],
                                      x |-> [j \in 1..L |-> M[<<r, c, ix[3], j - 1>>]]],
                          m |-> mask[<<r, c, ix[3]>>]]]]

astype(a, dt) == [shape |-> a.shape, at |-> [ix \in DOMAIN a.at |-> [v |-> Cast(a.at[ix].v, dt), m |-> a.at[ix].m]]]

\* Lines 239-250.
mirror(lay, a, first_row_angle) ==
    IF lay = "spherical"
    THEN IF isclose(first_row_angle, Deg(-180)) THEN keep_first_flip_rest(a) ELSE flipud(a)
    ELSE fliplr(a)

\* Lines 204-238 up to astype, after Data.IR was read; grid is what line 204
\* returned.  The array has its four axes: rows, columns, radii, samples or bins.
selected_hrirs(dt, grid, L, base, sd, dom, rsel, csel, g) ==
    LET R    == Len(grid.unique_row_angles)
        C    == Len(grid.unique_column_angles)
        K    == Len(grid.unique_radii)
        M0   == scatter(grid.position_map, R, C, K, L, base, Channel(sd), g)
        P1   == pole_copy(M0, R, K, L, 0, grid.single_start_mask, grid.start_pole_idx)
        P2   == pole_copy(P1.value, R, K, L, C - 1, grid.single_end_mask, grid.end_pole_idx)
        ri   == Indices(rsel, R)
        ci   == Indices(csel, C)
    IN  IF P1.kind # "ok" THEN P1
        ELSE IF P2.kind # "ok" THEN P2
        ELSE IF dom \notin Domains
        THEN Raise("AttributeError", "'ValueError' object has no attribute 'astype'")
        ELSE IF dom = "complex" /\ ~IsComplexType(dt)
        THEN Raise("ValueError", "An HRTF in the complex domain requires the dtype to be set to a complex type")
        ELSE Ok(astype(transform(P2.value, grid.position_mask, ri, ci, K, L, dom), dt))

\* Lines 204-250.
materialise(lay, dt, grid, L, base, sd, dom, rsel, csel, g) ==
    LET a  == selected_hrirs(dt, grid, L, base, sd, dom, rsel, csel, g)
        ri == Indices(rsel, Len(grid.unique_row_angles))
    IN  IF a.kind # "ok" THEN a
        ELSE IF Mirrored(sd) THEN mirror(lay, squeeze(a.value), At(grid.unique_row_angles, At(ri, 0)))
        ELSE Ok(squeeze(a.value))

----------------------------------------------------------------------------
\* The operations, each with the file handles it leaves open.

\* Lines 46-55.
hrir_samplerate(h) == ScopedRead(h, fileOpens, fileReads, "Data.SamplingRate")

\* Lines 58-67.
hrir_length(h) == ScopedRead(h, fileOpens, fileReads, siglen)

\* Lines 70-73.
hrtf_frequencies(h) ==
    LET len == hrir_length(h)
        rate == hrir_samplerate(len.handles)
    IN  IF len.out.kind # "ok" THEN len
        ELSE IF rate.out.kind # "ok" THEN rate
        ELSE [handles |-> rate.handles, out |-> Ok([num_bins |-> len.out.value \div 2 + 1])]

\* Lines 102-148.
map_call(h) ==
    ScopedRead(h, fileOpens, fileReads, map_sofa_position_order_to_matrix(layout, positions))

\* Lines 153-154 (and 160-161): the grid of the subject, then _hrir_select_angles
\* on it, as hrir_angle_indices and hrir_positions begin.
select_angles(h) ==
    LET m == map_call(h)
        g == m.out.value
    IN  IF m.out.kind # "ok" THEN m
        ELSE [handles |-> m.handles,
              out |-> hrir_select_angles(row_angles, column_angles, g.unique_row_angles,
                                         g.unique_column_angles, g.position_mask, Len(g.unique_radii))]

\* Lines 195-250.
hrir(h, g) ==
    LET ir == ScopedRead(h, fileOpens, fileReads, "Data.IR")
        m  == map_call(ir.handles)
    IN  IF ir.out.kind # "ok" THEN ir
        ELSE IF m.out.kind # "ok" THEN m
        ELSE [handles |-> m.handles,
              out |-> materialise(layout, dtype, m.out.value, siglen, sigbase, side, domain,
                                  row_indices, column_indices, g)]

----------------------------------------------------------------------------
\* Inputs of the calls.

Sides == {"left", "right", "mirrored-left", "mirrored-right", "up"}

AnyDomain == Domains \cup {"power"}

\* What np.empty may have left in a sample that is never written.
Garbage == {0, 5}

\* The grid as the file gives it (for the choice of index arguments only).
Grid == map_sofa_position_order_to_matrix(layout, positions)

\* Index arrays a caller may pass: None or ascending indices of the axis.
IndexChoices(n) == {Absent} \cup {Given(Ascending(S)) : S \in (SUBSET (0..(n - 1))) \ {{}}}

NoRequest == [given |-> FALSE, v |-> {}]

Requests(angles) == {NoRequest} \cup {Given(S) : S \in (SUBSET angles) \ {{}}}

----------------------------------------------------------------------------
\* Actions: one call each, with the caller's arguments; the file, the object
\* and the arguments do not change.

Returned(op, r) ==
    /\ handles' = r.handles
    /\ last' = [op |-> op, out |-> r.out]
    /\ UNCHANGED <<object, file, arguments>>

CallSamplerate == Returned("hrir_samplerate", hrir_samplerate(handles))

CallLength == Returned("hrir_length", hrir_length(handles))

CallFrequencies == Returned("hrtf_frequencies", hrtf_frequencies(handles))

CallMap == Returned("_map_sofa_position_order_to_matrix", map_call(handles))

CallSelectAngles == Returned("_hrir_select_angles", select_angles(handles))

CallHrir == \E g \in Garbage : Returned("hrir", hrir(handles, g))

Next ==
    \/ CallSamplerate
    \/ CallLength
    \/ CallFrequencies
    \/ CallMap
    \/ CallSelectAngles
    \/ CallHrir

----------------------------------------------------------------------------
\* Initial states: the object as constructed, the file it will read and the
\* arguments of the calls.

NoCall == [op |-> "none", out |-> Ok(None)]

\* Sequences of 1..n members of S.
SeqsUpTo(S, n) == UNION {[1..m -> S] : m \in 1..n}

InitObject(Layouts, Dtypes) ==
    /\ layout \in Layouts
    /\ dtype \in Dtypes
    /\ handles = 0
    /\ last = NoCall

InitFile(Opens, Reads, Positions, Lengths, Bases) ==
    /\ fileOpens \in Opens
    /\ fileReads \in Reads
    /\ positions \in Positions
    /\ siglen \in Lengths
    /\ sigbase \in Bases

InitHrirArguments(SideSet, DomainSet) ==
    /\ side \in SideSet
    /\ domain \in DomainSet
    /\ row_indices \in IndexChoices(Len(Grid.unique_row_angles))
    /\ column_indices \in IndexChoices(Len(Grid.unique_column_angles))

InitHrirWholeGrid(SideSet, DomainSet) ==
    /\ side \in SideSet
    /\ domain \in DomainSet
    /\ row_indices = Absent
    /\ column_indices = Absent

DefaultHrirArguments ==
    /\ side = "left"
    /\ domain = "time"
    /\ row_indices = Absent
    /\ column_indices = Absent

InitAngleArguments(RowAngles, ColumnAngles) ==
    /\ row_angles \in Requests(RowAngles)
    /\ column_angles \in Requests(ColumnAngles)

DefaultAngleArguments ==
    /\ row_angles = NoRequest
    /\ column_angles = NoRequest

BothLayouts == {"spherical", "interaural"}

\* A position as the file holds it for the layout: (row, column, radius) for the
\* spherical layout, (column, row, radius) for the interaural one.
AsStored(lay, rows, cols, radii) ==
    IF lay = "interaural" THEN cols \X rows \X radii ELSE rows \X cols \X radii

----------------------------------------------------------------------------
\* Specifications.

\* Every operation, on files that open or not and read or not.
FileRows == {RawDeg(0), RawDeg(90)}
FileCols == {RawDeg(0)}
FileRadii == {RawDeg(1)}

Init ==
    /\ InitObject(BothLayouts, {"float32"})
    /\ InitFile(BOOLEAN, BOOLEAN, SeqsUpTo(AsStored(layout, FileRows, FileCols, FileRadii), MaxNF), {2}, {0})
    /\ InitHrirWholeGrid(Sides, AnyDomain)
    /\ InitAngleArguments({Deg(0), Deg(200)}, {})

Spec == Init /\ [][Next]_vars

\* The position reconciler alone, on positions that round to the same value,
\* wrap, lie on poles and differ in radius.
MapRows == {RawDeg(0), 5, RawDeg(180)}
MapCols == {RawDeg(-90), RawDeg(0), RawDeg(90)}
MapRadii == {RawDeg(1), RawDeg(2)}

InitMap ==
    /\ InitObject(BothLayouts, {"float32"})
    /\ InitFile({TRUE}, {TRUE}, SeqsUpTo(AsStored(layout, MapRows, MapCols, MapRadii), MaxN), {1}, {0})
    /\ DefaultHrirArguments
    /\ DefaultAngleArguments

NextMap == CallMap

SpecMap == InitMap /\ [][NextMap]_vars

\* The grid selector on grids with close and distant row angles.
SelectRows == {RawDeg(0), RawDeg(45), RawDeg(120), RawDeg(120) + 10}
SelectCols == {RawDeg(0), RawDeg(90)}
SelectRadii == {RawDeg(1)}
SelectRowAngles == {Deg(0), Deg(45), Deg(120) + 1, Deg(200)}
SelectColumnAngles == {Deg(0), Deg(30)}

InitSelect ==
    /\ InitObject(BothLayouts, {"float32"})
    /\ InitFile({TRUE}, {TRUE}, SeqsUpTo(AsStored(layout, SelectRows, SelectCols, SelectRadii), MaxN), {1}, {0})
    /\ DefaultHrirArguments
    /\ InitAngleArguments(SelectRowAngles, SelectColumnAngles)

NextSelect == CallSelectAngles

SpecSelect == InitSelect /\ [][NextSelect]_vars

\* The pruning of the grid selector, on sparse grids of up to three rows and
\* three columns, the last one a pole.
PruneRows == {RawDeg(0), RawDeg(45), RawDeg(120)}
PruneCols == {RawDeg(0), RawDeg(30), RawDeg(90)}
PruneRadii == {RawDeg(1)}
PruneRowAngles == {Deg(0), Deg(45)}
PruneColumnAngles == {Deg(0), Deg(30)}

InitPrune ==
    /\ InitObject(BothLayouts, {"float32"})
    /\ InitFile({TRUE}, {TRUE}, SeqsUpTo(AsStored(layout, PruneRows, PruneCols, PruneRadii), MaxN), {1}, {0})
    /\ DefaultHrirArguments
    /\ InitAngleArguments(PruneRowAngles, PruneColumnAngles)

NextPrune == CallSelectAngles

SpecPrune == InitPrune /\ [][NextPrune]_vars

\* The signal materialiser.
HrirRows == {RawDeg(-180), RawDeg(0)}
HrirCols == {RawDeg(0), RawDeg(90)}
HrirRadii == {RawDeg(1), RawDeg(2)}

InitHrir ==
    /\ InitObject(BothLayouts, {"float32", "complex64"})
    /\ InitFile({TRUE}, {TRUE}, SeqsUpTo(AsStored(layout, HrirRows, HrirCols, HrirRadii), MaxNH), {1, 2}, {0})
    /\ InitHrirArguments(Sides, AnyDomain)
    /\ DefaultAngleArguments

NextHrir == CallHrir

SpecHrir == InitHrir /\ [][NextHrir]_vars

\* The end-to-end dataset: three positions at row angles -90, 0 and 90 in any
\* order, one column angle, one radius, four samples.
EndToEndRows == <<RawDeg(-90), RawDeg(0), RawDeg(90)>>
EndToEndCols == {RawDeg(0), RawDeg(90)}
EndToEndRadii == {RawDeg(1)}
EndToEndLength == {4}

Orderings(n) == {f \in [1..n -> 1..n] : \A i, j \in 1..n : f[i] = f[j] => i = j}

EndToEndPositions(lay) ==
    {[i \in 1..3 |-> IF lay = "interaural" THEN <<c, EndToEndRows[f[i]], r>>
                                             ELSE <<EndToEndRows[f[i]], c, r>>] :
        f \in Orderings(3), c \in EndToEndCols, r \in EndToEndRadii}

InitEndToEnd ==
    /\ InitObject(BothLayouts, {"float32", "float64"})
    /\ InitFile({TRUE}, {TRUE}, EndToEndPositions(layout), EndToEndLength, {0, 16777216})
    /\ InitHrirWholeGrid(Sides, AnyDomain)
    /\ DefaultAngleArguments

SpecEndToEnd == InitEndToEnd /\ [][NextHrir]_vars

----------------------------------------------------------------------------
\* Properties of the position reconciler.

MapReturned == last.op = "_map_sofa_position_order_to_matrix" /\ last.out.kind = "ok"

\* The raw coordinates of a position of the file, by meaning.
RawRow(p) == IF layout = "interaural" THEN p[2] ELSE p[1]
RawColumn(p) == IF layout = "interaural" THEN p[1] ELSE p[2]
RawRadius(p) == p[3]

\* v is raw rounded to the grid's precision: the nearest value, the even one on a tie.
IsRounded(raw, v) ==
    /\ Abs(10 * v - raw) <= 5
    /\ Abs(10 * v - raw) = 5 => v % 2 = 0

\* The grid values within one step of raw.
Nearby(raw) == {raw \div 10 - 1, raw \div 10, raw \div 10 + 1}

\* w is the representative of v in [-180, 180).
IsWrapped(v, w) ==
    /\ Deg(-180) <= w
    /\ w < Deg(180)
    /\ (w - v) % Deg(360) = 0

StrictlyAscending(u) == \A i \in 1..(Len(u) - 1) : u[i] < u[i + 1]

\* Some raw index occupies the cell.
Occupied(g, cell) == \E i \in 1..Len(g.position_map) : g.position_map[i] = cell

\* c is a pole column of the grid: the last column at 90 or the first at -90.
IsPoleColumn(g, c) ==
    \/ c = Len(g.unique_column_angles) - 1 /\ At(g.unique_column_angles, c) = Deg(90)
    \/ c = 0 /\ At(g.unique_column_angles, c) = Deg(-90)

RowsWithData(g, c, k) == {r \in 0..(Len(g.unique_row_angles) - 1) : Occupied(g, <<r, c, k>>)}

\* A cell of a pole column at a radius where exactly one row has raw data.
PoleReplicated(g, cell) ==
    /\ IsPoleColumn(g, cell[2])
    /\ Cardinality(RowsWithData(g, cell[2], cell[3])) = 1

GridCells(g) == Cells(Len(g.unique_row_angles), Len(g.unique_column_angles), Len(g.unique_radii))

PoleBookkeeping(g, c, single, idx) ==
    LET rows == {r \in 0..(Len(g.unique_row_angles) - 1) :
                   \E k \in 0..(Len(g.unique_radii) - 1) : Occupied(g, <<r, c, k>>)}
        shared == ~single.scalar /\ \E k \in 1..Len(single.v) : single.v[k]
    IN  /\ shared <=> Cardinality(rows) = 1
        /\ shared => idx \in rows

C9_PoleBookkeeping ==
    MapReturned =>
        LET g == last.out.value
            C == Len(g.unique_column_angles)
        IN  /\ At(g.unique_column_angles, C - 1) = Deg(90) =>
                 PoleBookkeeping(g, C - 1, g.single_end_mask, g.end_pole_idx)
            /\ At(g.unique_column_angles, 0) = Deg(-90) =>
                 PoleBookkeeping(g, 0, g.single_start_mask, g.start_pole_idx)

----------------------------------------------------------------------------
\* Properties of the grid selector.

SelectReturned == last.op = "_hrir_select_angles"

NoMatchingAngles ==
    /\ last.out.kind = "ValueError"
    /\ last.out.msg = "None of the specified angles are available in this dataset"

\* np.isclose's tolerance, for angles of at most 2000 degrees: a and b differ by
\* no more than atol + rtol * |b|.
WithinTolerance(a, b) ==
    /\ Abs(a - b) <= 20
    /\ Abs(a - b) * 100000 <= 1 + Abs(b)

\* The indices of the angles close to a requested angle.
Matching(all_angles, requested) ==
    {i \in 0..(Len(all_angles) - 1) : \E b \in requested : WithinTolerance(At(all_angles, i), b)}

\* The sequence s lists exactly the members of S, ascending.
ListsAscending(s, S) ==
    /\ {s[i] : i \in 1..Len(s)} = S
    /\ StrictlyAscending(s)

\* C3: with row angles requested and column angles None, row_indices are exactly
\* the rows close to a requested angle, ascending; if no row matches the call
\* fails with NoMatchingAngles.  The same for requested column angles with row
\* angles None.
C3_SelectorMatches ==
    SelectReturned =>
        /\ (row_angles.given /\ ~column_angles.given) =>
             LET want == Matching(Grid.unique_row_angles, row_angles.v)
             IN  IF want = {} THEN NoMatchingAngles
                 ELSE /\ last.out.kind = "ok"
                      /\ ListsAscending(last.out.value.row_indices, want)
        /\ (column_angles.given /\ ~row_angles.given) =>
             LET want == Matching(Grid.unique_column_angles, column_angles.v)
             IN  IF want = {} THEN NoMatchingAngles
                 ELSE /\ last.out.kind = "ok"
                      /\ ListsAscending(last.out.value.column_indices, want)

\* Two rows requested of three, one of them matched within tolerance only, on a
\* grid with a missing cell in a matching row.
C3_Witness ==
    /\ SelectReturned
    /\ last.out.kind = "ok"
    /\ row_angles.given
    /\ ~column_angles.given
    /\ Len(Grid.unique_row_angles) = 3
    /\ Len(last.out.value.row_indices) = 2
    /\ \E i \in 1..2 :
         LET r == last.out.value.row_indices[i]
         IN  /\ At(Grid.unique_row_angles, r) \notin row_angles.v
             /\ \E cell \in GridCells(Grid) : cell[1] = r /\ Grid.position_mask[cell]

----------------------------------------------------------------------------
\* Properties of the file access and of the errors.

FileOperations ==
    {"hrir_samplerate", "hrir_length", "_map_sofa_position_order_to_matrix", "hrir"}

\* The error of lines 174 and 185 for an unknown coordinate system, which the
\* specification calls InvalidArgument.
InvalidArgument == "ValueError"

ValidSides == {"left", "right", "mirrored-left", "mirrored-right"}

\* C6: hrir with an unknown domain or an unknown side fails with InvalidArgument
\* and returns no array (on a file that can be read).
C6_InvalidArgumentsRejected ==
    (last.op = "hrir" /\ fileOpens /\ fileReads /\ (domain \notin Domains \/ side \notin ValidSides)) =>
        last.out.kind = InvalidArgument

\* C7: when a call has returned or failed, no file handle is open.
C7_NoHandleLeftOpen == handles = 0

\* hrir failed on a file that opened but could not be read, after its handle was opened.
C7_Witness ==
    /\ last.op = "hrir"
    /\ fileOpens
    /\ ~fileReads
    /\ last.out.kind = "ValueError"
    /\ last.out.msg = ReadError
    /\ handles = 0

\* C8: on a file that cannot be opened or cannot be read, each operation fails
\* with the 'Error reading file' error and no other.
C8_UnreadableSource ==
    (last.op \in FileOperations /\ (~fileOpens \/ ~fileReads)) =>
        /\ last.out.kind = "ValueError"
        /\ last.out.msg = ReadError

----------------------------------------------------------------------------
\* Properties of the signal materialiser.

HrirReturned == last.op = "hrir"

GridShape == <<Len(Grid.unique_row_angles), Len(Grid.unique_column_angles), Len(Grid.unique_radii)>>

\* The index, in the squeezed array, of the entry that has index ix in the array
\* of the given full shape.
SqueezedIndex(shape, ix) ==
    LET axes == Ascending(KeptAxes(shape))
    IN  [n \in 1..Len(axes) |-> ix[axes[n]]]

\* The entry of the returned time-domain array of the whole grid at row r,
\* column c, radius k, sample j.
ResultCell(r, c, k, j) ==
    last.out.value.at[SqueezedIndex(GridShape \o <<siglen>>, <<r, c, k, j>>)]

WholeGridInTime ==
    /\ HrirReturned
    /\ domain = "time"
    /\ side \in {"left", "right"}
    /\ ~row_indices.given
    /\ ~column_indices.given

\* The rows with raw data in column c, at any radius.
RowsWithPoleData(c) ==
    {r \in 0..(GridShape[1] - 1) : \E k \in 0..(GridShape[3] - 1) : Occupied(Grid, <<r, c, k>>)}

\* C2: if exactly one row has raw data at a pole column, hrir() gives every row
\* of that column, at every radius, as non-missing and with the source row's
\* signal.
C2_PoleSharing ==
    WholeGridInTime =>
        \A c \in 0..(GridShape[2] - 1) :
            (IsPoleColumn(Grid, c) /\ Cardinality(RowsWithPoleData(c)) = 1) =>
                /\ last.out.kind = "ok"
                /\ \A s \in RowsWithPoleData(c) :
                     \A r \in 0..(GridShape[1] - 1), k \in 0..(GridShape[3] - 1), j \in 0..(siglen - 1) :
                        /\ ~ResultCell(r, c, k, j).m
                        /\ ResultCell(r, c, k, j).v = ResultCell(s, c, k, j).v

Unmirrored(sd) ==
    IF sd = "mirrored-left" THEN "left" ELSE IF sd = "mirrored-right" THEN "right" ELSE sd

\* The array of the unmirrored call with the same arguments, before squeezing.
UnmirroredFull(g) ==
    selected_hrirs(dtype, Grid, siglen, sigbase, Unmirrored(side), domain, row_indices, column_indices, g)

SameResult(a, b) == a.kind = b.kind /\ a = b

\* The 4-axis array with its rows reordered: all reversed, or the first kept
\* and the others reversed.
ReorderRows(a, keepFirst) ==
    [shape |-> a.shape,
     at    |-> [ix \in IndexSet(a.shape) |->
                  IF keepFirst
                  THEN (IF ix[1] = 0 THEN a.at[ix] ELSE a.at[[ix EXCEPT ![1] = a.shape[1] - ix[1]]])
                  ELSE a.at[[ix EXCEPT ![1] = a.shape[1] - 1 - ix[1]]]]]

FirstSelectedRowAngle ==
    At(Grid.unique_row_angles, At(Indices(row_indices, GridShape[1]), 0))

\* C4: on a spherical data point a mirrored side returns the unmirrored result
\* with only the row order changed: the first row kept if its angle is -180,
\* all other rows reversed.
C4_SphericalMirroring ==
    (HrirReturned /\ layout = "spherical" /\ Mirrored(side)) =>
        \E g \in Garbage :
            LET u == UnmirroredFull(g)
            IN  IF u.kind # "ok" THEN SameResult(last.out, u)
                ELSE SameResult(last.out,
                                Ok(squeeze(ReorderRows(u.value, FirstSelectedRowAngle = Deg(-180)))))

\* C10: on an interaural data point a mirrored side returns the unmirrored result
\* with only the column order reversed, for every selection.
C10_InterauralMirroring ==
    (HrirReturned /\ layout = "interaural" /\ Mirrored(side)) =>
        \E g \in Garbage :
            LET u == UnmirroredFull(g)
            IN  IF u.kind # "ok" THEN SameResult(last.out, u)
                ELSE SameResult(last.out, Ok(squeeze(FlipAxis(u.value, 2))))

\* The raw index of the end-to-end dataset whose row angle is the r-th smallest.
IndexOfRow(r) == CHOOSE i \in 1..Len(positions) : RawRow(positions[i]) = EndToEndRows[r + 1]

EndToEndInTime == WholeGridInTime /\ Len(positions) = 3

\* The ear of the file's second axis that the side names: 0 left, 1 right.
Ear == IF side = "left" THEN 0 ELSE 1

\* C5 as stated: the time-domain array of the end-to-end dataset has shape
\* 3 x 1 x 1 x 4, each row is the input signal of its position, nothing is masked.
C5_EndToEnd ==
    EndToEndInTime =>
        /\ last.out.kind = "ok"
        /\ last.out.value.shape = <<3, 1, 1, 4>>
        /\ \A r \in 0..2, j \in 0..3 :
             last.out.value.at[<<r, 0, 0, j>>] =
                 [v |-> [f |-> "time", bin |-> 0, x |-> <<Sample(sigbase, Ear, IndexOfRow(r), j)>>],
                  m |-> FALSE]

\* y is x as the dtype holds it: x itself in float64; in float32 the nearest
\* number with a 24-bit mantissa, the one with the even mantissa on a tie.
Representable32(y) == Abs(y) <= 16777216 \/ (y % 2 = 0 /\ Abs(y) <= 33554432)

IsValueIn(dt, x, y) ==
    IF dt = "float64" THEN y = x
    ELSE /\ Representable32(y)
         /\ \A z \in (x - 2)..(x + 2) :
              (Representable32(z) /\ z # y) =>
                  \/ Abs(z - x) > Abs(y - x)
                  \/ Abs(z - x) = Abs(y - x) /\ (y \div 2) % 2 = 0

\* C5 amended: the array has shape 3 x 4, the column and radius axes being
\* squeezed; row r holds the input signal of the position with the r-th smallest
\* row angle, in the data point's dtype; nothing is masked.
C5_EndToEndSqueezed ==
    EndToEndInTime =>
        /\ last.out.kind = "ok"
        /\ last.out.value.shape = <<3, 4>>
        /\ \A r \in 0..2, j \in 0..3 :
             LET cell == last.out.value.at[<<r, j>>]
             IN  /\ ~cell.m
                 /\ cell.v.f = "time"
                 /\ Len(cell.v.x) = 1
                 /\ IsValueIn(dtype, Sample(sigbase, Ear, IndexOfRow(r), j), cell.v.x[1])

\* The right channel of a file whose positions are not in row order and whose
\* samples float32 cannot hold exactly.
C5_Witness ==
    /\ EndToEndInTime
    /\ last.out.kind = "ok"
    /\ side = "right"
    /\ dtype = "float32"
    /\ sigbase = 16777216
    /\ IndexOfRow(0) = 3
    /\ \E r \in 0..2, j \in 0..3 :
         last.out.value.at[<<r, j>>].v.x[1] # Sample(sigbase, Ear, IndexOfRow(r), j)

----------------------------------------------------------------------------
\* Properties of the shape of the returned array.

\* The number of samples (time domain) or of frequency bins (other domains).
LastAxisSize == IF domain = "time" THEN siglen ELSE siglen \div 2 + 1

\* The numbers of selected rows, of selected columns and of radii.
SelectedShape ==
    <<Len(Indices(row_indices, GridShape[1])), Len(Indices(column_indices, GridShape[2])), GridShape[3]>>

\* A shape without its axes of size 1.
RECURSIVE WithoutSingletons(_)
WithoutSingletons(shape) ==
    IF shape = <<>> THEN <<>>
    ELSE IF Head(shape) = 1 THEN WithoutSingletons(Tail(shape))
    ELSE <<Head(shape)>> \o WithoutSingletons(Tail(shape))

\* C11: the array hrir() returns keeps the sample or bin axis as its last axis,
\* of size L resp. L \div 2 + 1, even when that size is 1; only row, column and
\* radius axes of size 1 are removed.
C11_SqueezeKeepsLastAxis ==
    (HrirReturned /\ last.out.kind = "ok") =>
        last.out.value.shape = WithoutSingletons(SelectedShape) \o <<LastAxisSize>>

----------------------------------------------------------------------------
\* Properties of the pruning of the grid selector.

\* In the grid g, the row r has a non-missing cell in column c, at some radius.
Present(g, r, c) == \E k \in 0..(Len(g.unique_radii) - 1) : ~g.position_mask[<<r, c, k>>]

\* The candidate indices of an axis: all of them, or those close to a request.
Candidates(all_angles, requested) ==
    IF requested.given THEN Matching(all_angles, requested.v) ELSE 0..(Len(all_angles) - 1)

\* No row of Rs is all missing over Cs, and no column of Cs over Rs.
Consistent(g, Rs, Cs) ==
    /\ \A r \in Rs : \E c \in Cs : Present(g, r, c)
    /\ \A c \in Cs : \E r \in Rs : Present(g, r, c)

\* Pruning repeated until nothing more is dropped.
RECURSIVE PruningFixedPoint(_, _, _)
PruningFixedPoint(g, Rs, Cs) ==
    LET Rn == {r \in Rs : \E c \in Cs : Present(g, r, c)}
        Cn == {c \in Cs : \E r \in Rn : Present(g, r, c)}
    IN  IF Rn = Rs /\ Cn = Cs THEN <<Rs, Cs>> ELSE PruningFixedPoint(g, Rn, Cn)

Members(s) == {s[i] : i \in 1..Len(s)}

ReturnedRows == Members(last.out.value.row_indices)

ReturnedColumns == Members(last.out.value.column_indices)

\* C12: when _hrir_select_angles succeeds, every returned row has a non-missing
\* cell among the returned columns and every returned column one among the
\* returned rows, and the selection is what pruning the candidates repeatedly
\* to a fixed point gives.
C12_PruningConsistent ==
    (SelectReturned /\ last.out.kind = "ok") =>
        LET g == Grid
        IN  /\ Consistent(g, ReturnedRows, ReturnedColumns)
            /\ <<ReturnedRows, ReturnedColumns>> =
                 PruningFixedPoint(g, Candidates(g.unique_row_angles, row_angles),
                                   Candidates(g.unique_column_angles, column_angles))

\* A call that prunes a candidate row and a candidate column at once and still
\* returns a selection.
C12_Witness ==
    /\ SelectReturned
    /\ last.out.kind = "ok"
    /\ ReturnedRows # {}
    /\ ReturnedColumns # {}
    /\ Candidates(Grid.unique_row_angles, row_angles) \ ReturnedRows # {}
    /\ Candidates(Grid.unique_column_angles, column_angles) \ ReturnedColumns # {}

====
